---- MODULE Spec2Model ----
(***************************************************************************)
(* Model of zotero_parser.py: the text helpers (clean_text,                *)
(* extract_year_from_date, extract_last_name, format_authors), the         *)
(* per-entry extractor parse_article and the per-entry loop of             *)
(* parse_zotero_html_report.                                               *)
(*                                                                         *)
(* A Python str is a sequence of one-character strings.  A markup node is  *)
(* a record; the text of a node is the sequence of its text fragments, as  *)
(* BeautifulSoup keeps them.                                               *)
(***************************************************************************)
EXTENDS Integers, Sequences, FiniteSets, TLC

VARIABLES
    pc,               \* position of the running call
    text,             \* clean_text: the argument
    cleaned,          \* clean_text: the result of the first call
    recleaned,        \* clean_text: the result of cleaning `cleaned` again
    date_text,        \* extract_year_from_date: the argument
    year,             \* extract_year_from_date: the result
    author_list,      \* format_authors: the argument
    formatted,        \* format_authors: the result
    article_li,       \* parse_article: the entry node
    article_data,     \* parse_article: the record being filled, then returned
    row,              \* parse_article: number of table rows already scanned
    article_items,    \* parse_zotero_html_report: soup.find_all('li', class_='item')
    i,                \* parse_zotero_html_report: number of entries already handled
    parsed_articles,  \* parse_zotero_html_report: the output list
    outcomes          \* parse_zotero_html_report: what was printed, one per handled entry

vars == <<pc, text, cleaned, recleaned, date_text, year, author_list, formatted,
          article_li, article_data, row, article_items, i, parsed_articles, outcomes>>

cleanVars   == <<text, cleaned, recleaned>>
yearVars    == <<date_text, year>>
authorVars  == <<author_list, formatted>>
articleVars == <<article_li, article_data, row>>
reportVars  == <<article_items, i, parsed_articles, outcomes>>

(***************************************************************************)
(* Bounds of the model.                                                    *)
(***************************************************************************)
MaxTextLen == 5
MaxDateLen == 5
MaxAuthors == 4
MaxRows == 3
MaxEntries == 3

(***************************************************************************)
(* Python str primitives.                                                  *)
(***************************************************************************)
\* The characters str.isspace() accepts, among those the model uses.
Whitespace == {" ", "\t", "\n", "\r"}

isspace(c) == c \in Whitespace

\* All strings over the alphabet A of length at most n.
StringsUpTo(A, n) == UNION {[1..k -> A] : k \in 0..n}

\* str.replace(old, new) for one-character old and new.
replace(s, old, new) == [k \in 1..Len(s) |-> IF s[k] = old THEN new ELSE s[k]]

\* str.split() without argument: the maximal runs of non-whitespace.
RECURSIVE SplitScan(_, _, _, _)
SplitScan(s, k, cur, acc) ==
    IF k > Len(s)
    THEN IF cur = <<>> THEN acc ELSE Append(acc, cur)
    ELSE IF isspace(s[k])
         THEN SplitScan(s, k + 1, <<>>, IF cur = <<>> THEN acc ELSE Append(acc, cur))
         ELSE SplitScan(s, k + 1, Append(cur, s[k]), acc)

split(s) == SplitScan(s, 1, <<>>, <<>>)

\* sep.join(parts)
RECURSIVE join(_, _)
join(sep, parts) ==
    IF parts = <<>> THEN <<>>
    ELSE IF Len(parts) = 1 THEN parts[1]
    ELSE parts[1] \o sep \o join(sep, Tail(parts))

\* str.strip() without argument.
RECURSIVE lstrip(_)
lstrip(s) == IF s # <<>> /\ isspace(s[1]) THEN lstrip(Tail(s)) ELSE s

RECURSIVE rstrip(_)
rstrip(s) ==
    IF s # <<>> /\ isspace(s[Len(s)]) THEN rstrip(SubSeq(s, 1, Len(s) - 1)) ELSE s

strip(s) == rstrip(lstrip(s))

(***************************************************************************)
(* clean_text                                                              *)
(***************************************************************************)
\* A slip that replaces the line breaks but forgets to collapse and trim.
clean_text_keeps_runs(t) ==
    IF t = <<>> THEN <<>> ELSE replace(replace(t, "\n", " "), "\r", " ")

clean_text(t) ==
    IF t = <<>> THEN <<>>
    ELSE LET cleaned1 == replace(replace(t, "\n", " "), "\r", " ")
         IN  join(<<" ">>, split(cleaned1))

(***************************************************************************)
(* extract_year_from_date: re.search(r'\b(19|20)\d{2}\b', date_text)       *)
(***************************************************************************)
Digits == {"0", "1", "2", "3", "4", "5", "6", "7", "8", "9"}

\* The letters the model's inputs use.
Letters == {"a", "d", "e", "l", "n", "s", "t", "x", "y",
            "A", "B", "C", "D", "E", "F", "T", "X", "Y"}

\* \d
isdigit(c) == c \in Digits

\* \w : alphanumeric or underscore
isword(c) == c \in Digits \cup Letters \cup {"_"}

\* \b at the gap after the first p characters of s (0 <= p <= Len(s)).
word_boundary(s, p) ==
    LET before == p >= 1 /\ isword(s[p])
        after  == p < Len(s) /\ isword(s[p + 1])
    IN  before # after

\* A slip that forgets the closing \b.
match_at_no_closing_boundary(s, k) ==
    /\ k + 3 <= Len(s)
    /\ word_boundary(s, k - 1)
    /\ \/ s[k] = "1" /\ s[k + 1] = "9"
       \/ s[k] = "2" /\ s[k + 1] = "0"
    /\ isdigit(s[k + 2])
    /\ isdigit(s[k + 3])

\* The pattern matches s starting at index k.
match_at(s, k) ==
    /\ k + 3 <= Len(s)
    /\ word_boundary(s, k - 1)
    /\ \/ s[k] = "1" /\ s[k + 1] = "9"
       \/ s[k] = "2" /\ s[k + 1] = "0"
    /\ isdigit(s[k + 2])
    /\ isdigit(s[k + 3])
    /\ word_boundary(s, k + 3)

\* re.search: the start of the leftmost match at or after k, 0 when there is none.
RECURSIVE re_search(_, _)
re_search(s, k) ==
    IF k > Len(s) THEN 0
    ELSE IF match_at(s, k) THEN k
    ELSE re_search(s, k + 1)

extract_year_from_date(d) ==
    IF d = <<>> THEN <<>>
    ELSE LET year_match == re_search(d, 1)
         IN  IF year_match # 0 THEN SubSeq(d, year_match, year_match + 3) ELSE <<>>

(***************************************************************************)
(* extract_last_name, format_authors                                       *)
(***************************************************************************)
extract_last_name(full_name) ==
    LET parts == split(strip(full_name))
    IN  IF parts # <<>> THEN parts[Len(parts)] ELSE full_name

\* A slip that counts blank names too.
last_names_with_blanks(list) ==
    [k \in 1..Len(list) |-> extract_last_name(list[k])]

\* [extract_last_name(author) for author in author_list if author.strip()]
last_names_of(list) ==
    LET kept == SelectSeq(list, LAMBDA author : strip(author) # <<>>)
    IN  [k \in 1..Len(kept) |-> extract_last_name(kept[k])]

format_authors(list) ==
    IF list = <<>> THEN <<>>
    ELSE LET last_names == last_names_of(list)
         IN  IF Len(last_names) = 1 THEN last_names[1]
             ELSE IF Len(last_names) = 2
                  THEN last_names[1] \o <<" ", "a", "n", "d", " ">> \o last_names[2]
             ELSE IF Len(last_names) > 2
                  THEN last_names[1] \o <<" ", "e", "t", " ", "a", "l">>
             ELSE <<>>

(***************************************************************************)
(* Markup nodes.  An entry <li class="item"> is [h2, table, fault]: h2 and  *)
(* table hold the first such descendant, as a sequence of length 0 (find    *)
(* returns None) or 1; fault says that reading the node raises.  A table is *)
(* the sequence of its <tr> rows, a row the sequence of its cells, a cell   *)
(* [tag, class, strings].  strings are the text fragments of the node.  In  *)
(* a label cell one word of the label is kept as one symbol.                *)
(***************************************************************************)
\* Tag.get_text(strip=True): each fragment stripped, the results concatenated.
RECURSIVE get_text(_)
get_text(strings) ==
    IF strings = <<>> THEN <<>>
    ELSE strip(strings[1]) \o get_text(Tail(strings))

\* find_next_sibling(tag): index of the first cell after position k with that
\* tag, 0 for None.
RECURSIVE find_next_sibling(_, _, _)
find_next_sibling(cells, k, tag) ==
    IF k + 1 > Len(cells) THEN 0
    ELSE IF cells[k + 1].tag = tag THEN k + 1
    ELSE find_next_sibling(cells, k + 1, tag)

\* row.find(tag): index of the first cell with that tag, 0 for None.
find(cells, tag) == find_next_sibling(cells, 0, tag)

\* The names one row contributes to `authors` (lines 90-96), from cell k on.
RECURSIVE row_authors(_, _)
row_authors(cells, k) ==
    IF k > Len(cells) THEN <<>>
    ELSE LET author_td   == find_next_sibling(cells, k, "td")
             author_name == clean_text(get_text(cells[author_td].strings))
         IN  IF /\ cells[k].tag = "th"
                /\ cells[k].class = "author"
                /\ author_td # 0
                /\ author_name # <<>>
             THEN <<author_name>> \o row_authors(cells, k + 1)
             ELSE row_authors(cells, k + 1)

\* The list `authors` of a table.
RECURSIVE table_authors(_)
table_authors(rows) ==
    IF rows = <<>> THEN <<>>
    ELSE row_authors(rows[1], 1) \o table_authors(Tail(rows))

JournalLabels == {<<"Publication">>, <<"Proceedings", " ", "Title">>, <<"Publisher">>}

\* A slip that turns the last elif into an else: any other label fills abstract.
row_step_else_abstract(data, cells) ==
    LET th == find(cells, "th")
        td == find(cells, "td")
    IN  IF th = 0 \/ td = 0 THEN data
        ELSE LET field_name  == get_text(cells[th].strings)
                 field_value == clean_text(get_text(cells[td].strings))
             IN  IF field_name = <<"Date">>
                 THEN [data EXCEPT !.year = extract_year_from_date(field_value)]
                 ELSE IF field_name \in JournalLabels
                 THEN IF data.journal = <<>>
                      THEN [data EXCEPT !.journal = field_value]
                      ELSE data
                 ELSE [data EXCEPT !.abstract = field_value]

\* A slip that drops the "use first one found" guard of journal.
row_step_journal_overwrites(data, cells) ==
    LET th == find(cells, "th")
        td == find(cells, "td")
    IN  IF th = 0 \/ td = 0 THEN data
        ELSE LET field_name  == get_text(cells[th].strings)
                 field_value == clean_text(get_text(cells[td].strings))
             IN  IF field_name = <<"Date">>
                 THEN [data EXCEPT !.year = extract_year_from_date(field_value)]
                 ELSE IF field_name \in JournalLabels
                 THEN [data EXCEPT !.journal = field_value]
                 ELSE IF field_name = <<"Abstract">>
                 THEN [data EXCEPT !.abstract = field_value]
                 ELSE data

\* A slip that gives abstract the journal's guard: the first non-empty one is kept.
row_step_abstract_first(data, cells) ==
    LET th == find(cells, "th")
        td == find(cells, "td")
    IN  IF th = 0 \/ td = 0 THEN data
        ELSE LET field_name  == get_text(cells[th].strings)
                 field_value == clean_text(get_text(cells[td].strings))
             IN  IF field_name = <<"Date">>
                 THEN [data EXCEPT !.year = extract_year_from_date(field_value)]
                 ELSE IF field_name \in JournalLabels
                 THEN IF data.journal = <<>>
                      THEN [data EXCEPT !.journal = field_value]
                      ELSE data
                 ELSE IF field_name = <<"Abstract">>
                 THEN IF data.abstract = <<>>
                      THEN [data EXCEPT !.abstract = field_value]
                      ELSE data
                 ELSE data

\* A slip that gives year the journal's guard: the first year found is kept.
row_step_year_first(data, cells) ==
    LET th == find(cells, "th")
        td == find(cells, "td")
    IN  IF th = 0 \/ td = 0 THEN data
        ELSE LET field_name  == get_text(cells[th].strings)
                 field_value == clean_text(get_text(cells[td].strings))
             IN  IF field_name = <<"Date">>
                 THEN IF data.year = <<>>
                      THEN [data EXCEPT !.year = extract_year_from_date(field_value)]
                      ELSE data
                 ELSE IF field_name \in JournalLabels
                 THEN IF data.journal = <<>>
                      THEN [data EXCEPT !.journal = field_value]
                      ELSE data
                 ELSE IF field_name = <<"Abstract">>
                 THEN [data EXCEPT !.abstract = field_value]
                 ELSE data

\* One iteration of "for row in rows" (lines 102-120).
row_step(data, cells) ==
    LET th == find(cells, "th")
        td == find(cells, "td")
    IN  IF th = 0 \/ td = 0 THEN data
        ELSE LET field_name  == get_text(cells[th].strings)
                 field_value == clean_text(get_text(cells[td].strings))
             IN  IF field_name = <<"Date">>
                 THEN [data EXCEPT !.year = extract_year_from_date(field_value)]
                 ELSE IF field_name \in JournalLabels
                 THEN IF data.journal = <<>>
                      THEN [data EXCEPT !.journal = field_value]
                      ELSE data
                 ELSE IF field_name = <<"Abstract">>
                 THEN [data EXCEPT !.abstract = field_value]
                 ELSE data

RECURSIVE scan_rows(_, _)
scan_rows(data, rows) ==
    IF rows = <<>> THEN data
    ELSE scan_rows(row_step(data, rows[1]), Tail(rows))

\* The record of line 70; the key 'author(s)' is the field authors.
NoRecord == [title |-> <<>>, authors |-> <<>>, year |-> <<>>, journal |-> <<>>,
             abstract |-> <<>>]

\* article_data after the title has been read (lines 70-81).
article_title(li) ==
    IF li.h2 # <<>>
    THEN [NoRecord EXCEPT !.title = clean_text(get_text(li.h2[1].strings))]
    ELSE NoRecord

\* article_data after the authors have been read (lines 88-98).
article_authors(li) ==
    [article_title(li) EXCEPT !.authors = format_authors(table_authors(li.table[1]))]

\* The value parse_article returns when it does not raise.
parse_article(li) ==
    IF li.table = <<>> THEN article_title(li)
    ELSE scan_rows(article_authors(li), li.table[1])

(***************************************************************************)
(* Values of the variables a specification does not use.                   *)
(***************************************************************************)
NoEntry  == [h2 |-> <<>>, table |-> <<>>, fault |-> FALSE]

IdleClean   == text = <<>> /\ cleaned = <<>> /\ recleaned = <<>>
IdleYear    == date_text = <<>> /\ year = <<>>
IdleAuthors == author_list = <<>> /\ formatted = <<>>
IdleArticle == article_li = NoEntry /\ article_data = NoRecord /\ row = 0
IdleReport  == article_items = <<>> /\ i = 0 /\ parsed_articles = <<>> /\ outcomes = <<>>

(***************************************************************************)
(* SpecClean: clean_text applied to a string, then to its own result.      *)
(***************************************************************************)
TextAlphabet == {"x", "y", " ", "\t", "\n", "\r"}

InitClean ==
    /\ pc = "clean_text"
    /\ text \in StringsUpTo(TextAlphabet, MaxTextLen)
    /\ cleaned = <<>>
    /\ recleaned = <<>>
    /\ IdleYear /\ IdleAuthors /\ IdleArticle /\ IdleReport

CleanText ==
    /\ pc = "clean_text"
    /\ cleaned' = clean_text(text)
    /\ pc' = "clean_again"
    /\ UNCHANGED <<text, recleaned, yearVars, authorVars, articleVars, reportVars>>

CleanAgain ==
    /\ pc = "clean_again"
    /\ recleaned' = clean_text(cleaned)
    /\ pc' = "clean_done"
    /\ UNCHANGED <<text, cleaned, yearVars, authorVars, articleVars, reportVars>>

NextClean == CleanText \/ CleanAgain

SpecClean == InitClean /\ [][NextClean]_vars

(***************************************************************************)
(* SpecYear: extract_year_from_date applied to a date text.                *)
(***************************************************************************)
DateAlphabet == {"1", "9", "2", "0", "s", "_", "-"}

YearDigits == {"1", "9", "2", "0"}

\* Two four-digit groups around one separator, as in "2020-2021".
TwoYearTexts(separators) ==
    {a \o <<sep>> \o b : a \in [1..4 -> YearDigits], b \in [1..4 -> YearDigits],
                         sep \in separators}

DateTexts(n) == StringsUpTo(DateAlphabet, n) \cup TwoYearTexts({"-", "s"})

InitYear ==
    /\ pc = "extract_year"
    /\ date_text \in DateTexts(MaxDateLen)
    /\ year = <<>>
    /\ IdleClean /\ IdleAuthors /\ IdleArticle /\ IdleReport

ExtractYear ==
    /\ pc = "extract_year"
    /\ year' = extract_year_from_date(date_text)
    /\ pc' = "year_done"
    /\ UNCHANGED <<date_text, cleanVars, authorVars, articleVars, reportVars>>

NextYear == ExtractYear

SpecYear == InitYear /\ [][NextYear]_vars

(***************************************************************************)
(* SpecAuthors: format_authors applied to a list of names.                 *)
(***************************************************************************)
Names ==
    { <<>>,
      <<" ">>,
      <<"A">>,
      <<"A", " ", "B">>,
      <<" ", "C", "\t", "D", " ">>,
      <<"E", " ", " ", "F", "\n">> }

AuthorLists(n) == UNION {[1..k -> Names] : k \in 0..n}

InitAuthors ==
    /\ pc = "format_authors"
    /\ author_list \in AuthorLists(MaxAuthors)
    /\ formatted = <<>>
    /\ IdleClean /\ IdleYear /\ IdleArticle /\ IdleReport

FormatAuthors ==
    /\ pc = "format_authors"
    /\ formatted' = format_authors(author_list)
    /\ pc' = "authors_done"
    /\ UNCHANGED <<author_list, cleanVars, yearVars, articleVars, reportVars>>

NextAuthors == FormatAuthors

SpecAuthors == InitAuthors /\ [][NextAuthors]_vars

(***************************************************************************)
(* SpecArticle: parse_article on one entry, one table row per step.        *)
(***************************************************************************)
Th(label, class) == [tag |-> "th", class |-> class, strings |-> <<label>>]
Td(strings)      == [tag |-> "td", class |-> "", strings |-> strings]

\* Texts of value cells and headings, as fragments.
TextBlank  == << <<" ", "\n">> >>                               \* cleans to ""
TextX      == << <<" ", "X">>, <<"\n">> >>                      \* cleans to "X"
TextYY     == << <<"Y", "\n", "\r", "Y">> >>                    \* cleans to "Y Y"
Text2021   == << <<"2", "0", "2", "1">> >>
TextIn1999 == << <<"s", "\n", "1", "9", "9", "9", "-", "0", "1">> >>
TextNoYear == << <<"1", "9", "9", "9", "s">> >>
TextAnnLee == << <<"A", " ", "B">> >>

LabelDate        == <<"Date">>
LabelPublication == <<"Publication">>
LabelProceedings == <<"Proceedings", " ", "Title">>
LabelPublisher   == <<"Publisher">>
LabelAbstract    == <<"Abstract">>
LabelAuthor      == <<"Author">>

\* The rows the tables are built from.
TableRows ==
    { << Th(LabelDate, ""), Td(Text2021) >>,
      << Th(LabelDate, ""), Td(TextIn1999) >>,
      << Th(LabelDate, ""), Td(TextNoYear) >>,
      << Th(LabelPublication, ""), Td(TextBlank) >>,
      << Th(LabelProceedings, ""), Td(TextX) >>,
      << Th(LabelPublisher, ""), Td(TextYY) >>,
      << Th(LabelAbstract, ""), Td(TextBlank) >>,
      << Th(LabelAbstract, ""), Td(TextX) >>,
      << Th(LabelAbstract, ""), Td(TextYY) >>,
      << Th(LabelAuthor, "author"), Td(TextAnnLee) >>,
      << Th(LabelAuthor, "author"), Td(TextBlank) >>,
      << Th(LabelAbstract, "") >>,
      << Td(TextX), Th(LabelAuthor, "author") >>,
      << Td(Text2021) >> }

Tables(n) == UNION {[1..k -> TableRows] : k \in 0..n}

Headings == { << >>, << [strings |-> TextBlank] >>, << [strings |-> TextX] >> }

ArticleEntries(n) ==
    {[h2 |-> h, table |-> t, fault |-> FALSE] :
        h \in Headings, t \in {<<>>} \cup {<<rows>> : rows \in Tables(n)}}

InitArticle ==
    /\ pc = "parse_article"
    /\ article_li \in ArticleEntries(MaxRows)
    /\ article_data = NoRecord
    /\ row = 0
    /\ IdleClean /\ IdleYear /\ IdleAuthors /\ IdleReport

\* Lines 70-86: the title, and the early return when there is no table.
ReturnWithoutTable ==
    /\ pc = "parse_article"
    /\ article_li.table = <<>>
    /\ article_data' = article_title(article_li)
    /\ pc' = "article_done"
    /\ UNCHANGED <<article_li, row, cleanVars, yearVars, authorVars, reportVars>>

\* Lines 70-101: the title, the authors, and the rows to scan.
ReadTitleAndAuthors ==
    /\ pc = "parse_article"
    /\ article_li.table # <<>>
    /\ article_data' = article_authors(article_li)
    /\ row' = 0
    /\ pc' = "rows"
    /\ UNCHANGED <<article_li, cleanVars, yearVars, authorVars, reportVars>>

\* Lines 102-120: one iteration of the row loop.
ScanRow ==
    /\ pc = "rows"
    /\ row < Len(article_li.table[1])
    /\ article_data' = row_step(article_data, article_li.table[1][row + 1])
    /\ row' = row + 1
    /\ UNCHANGED <<pc, article_li, cleanVars, yearVars, authorVars, reportVars>>

\* Line 122.
ReturnArticle ==
    /\ pc = "rows"
    /\ row = Len(article_li.table[1])
    /\ pc' = "article_done"
    /\ UNCHANGED <<article_li, article_data, row, cleanVars, yearVars, authorVars,
                   reportVars>>

NextArticle == ReturnWithoutTable \/ ReadTitleAndAuthors \/ ScanRow \/ ReturnArticle

SpecArticle == InitArticle /\ [][NextArticle]_vars

(***************************************************************************)
(* Spec: the per-entry loop of parse_zotero_html_report.                   *)
(***************************************************************************)
\* parse_article(article_li) raises inside the try block (line 151).
raises(li) == li.fault

\* A slip that appends whatever parse_article returned.
has_title_unchecked(data) == TRUE

\* if article_data['title'] (line 153)
has_title(data) == data.title # <<>>

\* A slip that inserts at the front of the list.
list_insert_front(list, data) == <<data>> \o list

\* parsed_articles.append(article_data) (line 154)
list_append(list, data) == Append(list, data)

\* A slip that puts the try around the whole loop: a fault ends the loop.
after_fault_loop_ends(k, n) == n

\* The except clause sits inside the loop body (lines 149-159): after entry
\* k + 1 of n has raised, the loop goes on with the next entry.
after_fault(k, n) == k + 1

SampleTable == << << Th(LabelDate, ""), Td(Text2021) >>,
                  << Th(LabelAbstract, ""), Td(TextX) >> >>

ReportHeadings == Headings \cup { << [strings |-> TextYY] >> }

ReportEntries ==
    {[h2 |-> h, table |-> t, fault |-> f] :
        h \in ReportHeadings, t \in {<<>>, <<SampleTable>>}, f \in BOOLEAN}

Documents(n) == UNION {[1..k -> ReportEntries] : k \in 0..n}

Init ==
    /\ pc = "loop"
    /\ article_items \in Documents(MaxEntries)
    /\ i = 0
    /\ parsed_articles = <<>>
    /\ outcomes = <<>>
    /\ IdleClean /\ IdleYear /\ IdleAuthors /\ IdleArticle

\* Lines 151-155: the entry has a title and is appended.
AppendParsed ==
    /\ pc = "loop"
    /\ i < Len(article_items)
    /\ ~raises(article_items[i + 1])
    /\ has_title(parse_article(article_items[i + 1]))
    /\ parsed_articles' = list_append(parsed_articles, parse_article(article_items[i + 1]))
    /\ outcomes' = Append(outcomes, "Parsed")
    /\ i' = i + 1
    /\ UNCHANGED <<pc, article_items, cleanVars, yearVars, authorVars, articleVars>>

\* Lines 151-157: the entry has no title and is skipped.
SkipNoTitle ==
    /\ pc = "loop"
    /\ i < Len(article_items)
    /\ ~raises(article_items[i + 1])
    /\ ~has_title(parse_article(article_items[i + 1]))
    /\ outcomes' = Append(outcomes, "Skipped")
    /\ i' = i + 1
    /\ UNCHANGED <<pc, article_items, parsed_articles, cleanVars, yearVars, authorVars,
                   articleVars>>

\* Lines 158-159: the entry raised; the error is printed.
CatchError ==
    /\ pc = "loop"
    /\ i < Len(article_items)
    /\ raises(article_items[i + 1])
    /\ outcomes' = Append(outcomes, "Error")
    /\ i' = after_fault(i, Len(article_items))
    /\ UNCHANGED <<pc, article_items, parsed_articles, cleanVars, yearVars, authorVars,
                   articleVars>>

\* Line 161.
Return ==
    /\ pc = "loop"
    /\ i = Len(article_items)
    /\ pc' = "returned"
    /\ UNCHANGED <<article_items, i, parsed_articles, outcomes, cleanVars, yearVars,
                   authorVars, articleVars>>

Next == AppendParsed \/ SkipNoTitle \/ CatchError \/ Return

Spec == Init /\ [][Next]_vars

(***************************************************************************)
(* Claims about the text helpers.                                          *)
(***************************************************************************)
NoLineBreak(s) == \A k \in 1..Len(s) : s[k] \notin {"\n", "\r"}
NoWhitespaceRun(s) == \A k \in 1..(Len(s) - 1) : ~(isspace(s[k]) /\ isspace(s[k + 1]))
Trimmed(s) == s = <<>> \/ (~isspace(s[1]) /\ ~isspace(s[Len(s)]))

\* C7: clean_text is idempotent, clean_text(clean_text(x)) = clean_text(x), and
\* its result has no CR or LF, no run of two or more whitespace characters and
\* no leading or trailing whitespace.
C7_CleanTextIdempotent ==
    /\ pc \in {"clean_again", "clean_done"} =>
          NoLineBreak(cleaned) /\ NoWhitespaceRun(cleaned) /\ Trimmed(cleaned)
    /\ pc = "clean_done" => recleaned = cleaned

\* A string with a line break, an inner run and an outer blank has been cleaned twice.
C7_Witness ==
    /\ pc = "clean_done"
    /\ text = <<" ", "x", "\n", "\r", "y">>
    /\ cleaned = <<"x", " ", "y">>
    /\ recleaned = cleaned

\* The numeric value of a string of decimal digits.
DigitValue(c) ==
    CASE c = "0" -> 0 [] c = "1" -> 1 [] c = "2" -> 2 [] c = "3" -> 3 [] c = "4" -> 4
      [] c = "5" -> 5 [] c = "6" -> 6 [] c = "7" -> 7 [] c = "8" -> 8 [] c = "9" -> 9

RECURSIVE NumberOf(_)
NumberOf(s) ==
    IF s = <<>> THEN 0
    ELSE 10 * NumberOf(SubSeq(s, 1, Len(s) - 1)) + DigitValue(s[Len(s)])

\* Four digits beginning with 19 or 20 start at k of d, with no letter, digit
\* or underscore next to them on either side.
BoundedYearAt(d, k) ==
    /\ k >= 1 /\ k + 3 <= Len(d)
    /\ \A j \in k..(k + 3) : d[j] \in Digits
    /\ SubSeq(d, k, k + 1) \in {<<"1", "9">>, <<"2", "0">>}
    /\ k > 1 => d[k - 1] \notin (Digits \cup Letters \cup {"_"})
    /\ k + 3 < Len(d) => d[k + 4] \notin (Digits \cup Letters \cup {"_"})

BoundedYears(d) == {k \in 1..Len(d) : BoundedYearAt(d, k)}

\* C5: extract_year_from_date returns the leftmost four-digit substring that
\* begins with 19 or 20 and is bounded by word boundaries, the empty string
\* when there is none; the result is empty or a number in 1900..2099.
C5_YearIsLeftmostBoundedMatch ==
    pc = "year_done" =>
        /\ BoundedYears(date_text) = {} => year = <<>>
        /\ BoundedYears(date_text) # {} =>
              \E k \in BoundedYears(date_text) :
                  /\ \A j \in BoundedYears(date_text) : k <= j
                  /\ year = SubSeq(date_text, k, k + 3)
        /\ \/ year = <<>>
           \/ /\ Len(year) = 4
              /\ \A k \in 1..4 : year[k] \in Digits
              /\ NumberOf(year) \in 1900..2099

\* "2020-1999": two bounded years, the left one is returned.
C5_Witness ==
    /\ pc = "year_done"
    /\ Cardinality(BoundedYears(date_text)) = 2
    /\ date_text = <<"2", "0", "2", "0", "-", "1", "9", "9", "9">>
    /\ year = <<"2", "0", "2", "0">>

NonBlank(name) == \E k \in 1..Len(name) : ~isspace(name[k])

\* The last whitespace-delimited token of a non-blank name.
Surname(name) ==
    LET last  == CHOOSE e \in 1..Len(name) :
                     ~isspace(name[e]) /\ \A j \in (e + 1)..Len(name) : isspace(name[j])
        first == CHOOSE b \in 1..last :
                     /\ \A j \in b..last : ~isspace(name[j])
                     /\ b = 1 \/ isspace(name[b - 1])
    IN  SubSeq(name, first, last)

NonBlankNames(list) == SelectSeq(list, NonBlank)

\* C4: format_authors applies the multiplicity rule to the non-blank names, in
\* input order with duplicates kept: none gives "", one gives its surname, two
\* give "<surname1> and <surname2>", three or more give "<surname1> et al".
C4_FormatAuthorsMultiplicity ==
    pc = "authors_done" =>
        LET names == NonBlankNames(author_list)
        IN  /\ Len(names) = 0 => formatted = <<>>
            /\ Len(names) = 1 => formatted = Surname(names[1])
            /\ Len(names) = 2 =>
                  formatted = Surname(names[1]) \o <<" ", "a", "n", "d", " ">>
                                  \o Surname(names[2])
            /\ Len(names) >= 3 =>
                  formatted = Surname(names[1]) \o <<" ", "e", "t", " ", "a", "l">>

\* A blank name among three names: two count, and both surnames are reported.
C4_Witness ==
    /\ pc = "authors_done"
    /\ author_list = << <<" ">>, <<" ", "C", "\t", "D", " ">>, <<"A", " ", "B">> >>
    /\ formatted = <<"D", " ", "a", "n", "d", " ", "B">>

(***************************************************************************)
(* Claims about parse_article.                                             *)
(***************************************************************************)
HasCell(cells, tag) == \E k \in 1..Len(cells) : cells[k].tag = tag

FirstCell(cells, tag) ==
    cells[CHOOSE k \in 1..Len(cells) :
              cells[k].tag = tag /\ \A j \in 1..(k - 1) : cells[j].tag # tag]

\* The row has a label cell and a value cell.
HasPair(cells) == HasCell(cells, "th") /\ HasCell(cells, "td")

LabelOf(cells) == get_text(FirstCell(cells, "th").strings)
ValueOf(cells) == clean_text(get_text(FirstCell(cells, "td").strings))

\* parse_article is in, or past, the row loop of an entry with a table.
Scanning == pc \in {"rows", "article_done"} /\ article_li.table # <<>>

\* The indices, among the rows scanned so far, of the rows whose label is in L.
ScannedRows(L) ==
    {k \in 1..row : /\ HasPair(article_li.table[1][k])
                    /\ LabelOf(article_li.table[1][k]) \in L}

Least(S)    == CHOOSE k \in S : \A j \in S : k <= j
Greatest(S) == CHOOSE k \in S : \A j \in S : j <= k

\* C6: journal is the cleaned value of the first scanned row labelled
\* Publication, Proceedings Title or Publisher whose value is non-empty, and
\* empty when there is no such row; later candidates never overwrite it and
\* an empty candidate does not block a later one.
C6_JournalFirstNonEmptyWins ==
    Scanning =>
        LET filled == {k \in ScannedRows({LabelPublication, LabelProceedings,
                                          LabelPublisher}) :
                          ValueOf(article_li.table[1][k]) # <<>>}
        IN  article_data.journal =
                IF filled = {} THEN <<>>
                ELSE ValueOf(article_li.table[1][Least(filled)])

\* Publication blank, Proceedings Title X, Publisher "Y Y": journal is X.
C6_Witness ==
    /\ pc = "article_done"
    /\ article_li.table = << << << Th(LabelPublication, ""), Td(TextBlank) >>,
                                << Th(LabelProceedings, ""), Td(TextX) >>,
                                << Th(LabelPublisher, ""), Td(TextYY) >> >> >>
    /\ article_data.journal = <<"X">>

RecordFields == {"title", "authors", "year", "journal", "abstract"}

IsStr(s) == s \in Seq(STRING)

\* A row offers an author: a th of class author with a td after it.
OffersAuthor(cells) ==
    \E k \in 1..Len(cells) : \E j \in (k + 1)..Len(cells) :
        cells[k].tag = "th" /\ cells[k].class = "author" /\ cells[j].tag = "td"

AnyRow(P(_)) ==
    \E k \in 1..Len(article_li.table[1]) : P(article_li.table[1][k])

\* C8: parse_article returns a record with exactly the five fields, each a
\* string; a field whose source is absent (no heading, no table, no row with
\* that label that has both a label cell and a value cell) is the empty string.
C8_RecordShapeAndDefaults ==
    /\ DOMAIN article_data = RecordFields
    /\ \A f \in RecordFields : IsStr(article_data[f])
    /\ pc = "article_done" =>
        /\ article_li.h2 = <<>> => article_data.title = <<>>
        /\ article_li.table = <<>> =>
              \A f \in RecordFields \ {"title"} : article_data[f] = <<>>
        /\ article_li.table # <<>> =>
            /\ ~AnyRow(OffersAuthor) => article_data.authors = <<>>
            /\ ~AnyRow(LAMBDA c : HasPair(c) /\ LabelOf(c) = LabelDate) =>
                  article_data.year = <<>>
            /\ ~AnyRow(LAMBDA c : HasPair(c) /\ LabelOf(c) \in
                          {LabelPublication, LabelProceedings, LabelPublisher}) =>
                  article_data.journal = <<>>
            /\ ~AnyRow(LAMBDA c : HasPair(c) /\ LabelOf(c) = LabelAbstract) =>
                  article_data.abstract = <<>>

\* No heading, an author row, an Abstract row without value cell and a value
\* cell without label: only the author field is filled.
C8_Witness ==
    /\ pc = "article_done"
    /\ article_li.h2 = <<>>
    /\ article_li.table = << << << Th(LabelAuthor, "author"), Td(TextAnnLee) >>,
                                << Th(LabelAbstract, "") >>,
                                << Td(Text2021) >> >> >>
    /\ article_data = [NoRecord EXCEPT !.authors = <<"B">>]

\* C9: abstract is the cleaned value of the last scanned row labelled Abstract,
\* whatever the earlier ones held, an empty value included.
C9_AbstractLastRowWins ==
    Scanning =>
        LET abstracts == ScannedRows({LabelAbstract})
        IN  article_data.abstract =
                IF abstracts = {} THEN <<>>
                ELSE ValueOf(article_li.table[1][Greatest(abstracts)])

\* Abstract X, then Abstract blank: the abstract ends empty.
C9_Witness ==
    /\ pc = "article_done"
    /\ article_li.table = << << << Th(LabelAbstract, ""), Td(TextX) >>,
                                << Th(LabelAbstract, ""), Td(TextBlank) >> >> >>
    /\ article_data.abstract = <<>>

\* C10: year is the year extracted from the last scanned row labelled Date
\* alone; a later Date row without a year resets it to the empty string.
C10_YearFromLastDateRow ==
    Scanning =>
        LET dates == ScannedRows({LabelDate})
        IN  article_data.year =
                IF dates = {} THEN <<>>
                ELSE extract_year_from_date(ValueOf(article_li.table[1][Greatest(dates)]))

\* Date 2021, then Date "1999s": the year ends empty.
C10_Witness ==
    /\ pc = "article_done"
    /\ article_li.table = << << << Th(LabelDate, ""), Td(Text2021) >>,
                                << Th(LabelDate, ""), Td(TextNoYear) >> >> >>
    /\ article_data.year = <<>>

(***************************************************************************)
(* Claims about parse_zotero_html_report.                                  *)
(***************************************************************************)
\* The cleaned heading text of an entry, empty when it has no h2.
HeadingText(li) ==
    IF li.h2 = <<>> THEN <<>> ELSE clean_text(get_text(li.h2[1].strings))

\* C1: at every point of the loop and at return every record of the output
\* has a non-empty title; an entry whose extracted title is empty is never
\* appended.
C1_EveryRecordHasTitle ==
    /\ \A k \in 1..Len(parsed_articles) : parsed_articles[k].title # <<>>
    /\ \A k \in 1..Len(outcomes) :
           HeadingText(article_items[k]) = <<>> => outcomes[k] # "Parsed"

\* No heading, a blank heading and a heading X: only X is in the output.
C1_Witness ==
    /\ pc = "returned"
    /\ Len(article_items) = 3
    /\ article_items[1].h2 = <<>> /\ ~article_items[1].fault
    /\ article_items[2].h2 = << [strings |-> TextBlank] >> /\ ~article_items[2].fault
    /\ article_items[3].h2 = << [strings |-> TextX] >> /\ ~article_items[3].fault
    /\ Len(parsed_articles) = 1
    /\ parsed_articles[1].title = <<"X">>

\* The entries among the first n that do not raise and have a title.
KeptEntries(n) ==
    {k \in 1..n : ~article_items[k].fault /\ HeadingText(article_items[k]) # <<>>}

Faulty == {k \in 1..Len(article_items) : article_items[k].fault}

\* C2: an entry that raises is skipped alone: the loop handles every entry,
\* one outcome each, the faulty ones and only they end as errors, the run
\* returns, and the output holds one record per other entry with a title
\* (N - 1 records when one of N entries raises and the others have titles).
C2_FaultSkipsOnlyThatEntry ==
    /\ pc \in {"loop", "returned"}
    /\ i <= Len(article_items)
    /\ Len(outcomes) = i
    /\ \A k \in 1..Len(outcomes) : (outcomes[k] = "Error") <=> (k \in Faulty)
    /\ Len(parsed_articles) = Cardinality(KeptEntries(i))
    /\ pc = "returned" =>
        /\ i = Len(article_items)
        /\ (/\ Cardinality(Faulty) = 1
            /\ \A k \in 1..Len(article_items) : HeadingText(article_items[k]) # <<>>)
           => Len(parsed_articles) = Len(article_items) - 1

\* Of three titled entries the second raises: the run returns two records.
C2_Witness ==
    /\ pc = "returned"
    /\ Len(article_items) = 3
    /\ Faulty = {2}
    /\ \A k \in 1..3 : HeadingText(article_items[k]) # <<>>
    /\ outcomes = <<"Parsed", "Error", "Parsed">>
    /\ Len(parsed_articles) = 2

\* The m-th smallest element of a set of numbers.
Nth(S, m) == CHOOSE k \in S : Cardinality({j \in S : j <= k}) = m

\* C3: the output is the sequence of the records of the entries that have a
\* title and did not raise, in document order, one record per kept entry,
\* each the record of its own entry.
C3_OutputPreservesDocumentOrder ==
    /\ Len(parsed_articles) = Cardinality(KeptEntries(i))
    /\ \A m \in 1..Len(parsed_articles) :
           parsed_articles[m] = parse_article(article_items[Nth(KeptEntries(i), m)])

\* Titles "Y Y", none, X in the document: "Y Y" then X in the output.
C3_Witness ==
    /\ pc = "returned"
    /\ Len(article_items) = 3
    /\ Faulty = {}
    /\ HeadingText(article_items[1]) = <<"Y", " ", "Y">>
    /\ HeadingText(article_items[2]) = <<>>
    /\ HeadingText(article_items[3]) = <<"X">>
    /\ Len(parsed_articles) = 2
    /\ parsed_articles[1].title = <<"Y", " ", "Y">>
    /\ parsed_articles[2].title = <<"X">>
    /\ parsed_articles[2].year = <<"2", "0", "2", "1">>

====
